---- MODULE Spec2Model ----
(***************************************************************************)
(* Coin selection of the GraphQL API (crates/fuel-core/src/schema/coins.rs):*)
(* CoinQuery::coins_to_spend, ReadView::coins_to_spend and the two paths    *)
(* coins_to_spend_with_cache (indexed) and coins_to_spend_without_cache     *)
(* (fallback).  The selectors themselves (coins_query::select_coins_to_spend*)
(* and coins_query::random_improve) live outside schema/coins.rs and are    *)
(* modelled from sections 4.3 and 4.4 of the specification.                 *)
(***************************************************************************)
EXTENDS Integers, Sequences, FiniteSets, TLC

VARIABLES
    coins,            \* on-chain: utxo ids of the unspent coins
    messages,         \* on-chain: nonces of the unspent messages
    index,            \* off-chain: keys of the CoinsToSpend index
    indexation,       \* IndexationKind::CoinsToSpend is among the indexation flags
    max_input,        \* params.tx_params().max_inputs()
    batch_size,       \* ReadView::batch_size
    pc,               \* position of the handler
    owner,            \* argument owner
    query_per_asset,  \* argument query_per_asset (truncated in place)
    excluded_ids,     \* argument excluded_ids: Option<ExcludeInput>
    request,          \* the query_per_asset list as the caller supplied it
    exclude,          \* Exclude built from excluded_ids
    read_view,        \* the ReadView acquired by ctx.read_view()
    caps,             \* the max handed to the selector, per processed target
    all_coins,        \* accumulator of the per-asset results
    result,           \* what the call returned
    storage_calls,    \* storage accesses made by the call so far
    first             \* the outcome of the same request, made once before

vars == <<coins, messages, index, indexation, max_input, batch_size, pc, owner,
          query_per_asset, excluded_ids, request, exclude, read_view, caps,
          all_coins, result, storage_calls, first>>

db == <<coins, messages, index, indexation, max_input, batch_size>>

\* The arguments, locals and outcome of the call in flight.
call == <<pc, owner, query_per_asset, excluded_ids, request, exclude, read_view, caps,
          all_coins, result, storage_calls, first>>

(***************************************************************************)
(* Bounds of the model.                                                    *)
(***************************************************************************)
MaxTargets == 2
MaxExcludedUtxos == 2
MaxExcludedMessages == 1

(***************************************************************************)
(* Values.                                                                 *)
(***************************************************************************)
None == <<>>
Some(x) == <<x>>
IsSome(o) == Len(o) = 1
Unwrap(o) == o[1]

Min(a, b) == IF a <= b THEN a ELSE b

Range(s) == {s[k] : k \in 1..Len(s)}

SeqsUpTo(S, n) == UNION {[1..k -> S] : k \in 0..n}

RECURSIVE SumAmounts(_)
SumAmounts(s) == IF s = <<>> THEN 0 ELSE s[1].amount + SumAmounts(Tail(s))

AssetIds == {"X", "Y"}
BaseAssetId == "X"
Owners == {"o1"}
UtxoIds == 1..4
Nonces == {1}
\* A message that carries data: it cannot be converted into a message coin.
DataNonces == {2}

\* fuel_core_types::entities::coins::CoinId
Utxo(u) == [kind |-> "Utxo", id |-> u]
Message(n) == [kind |-> "Message", id |-> n]

\* The coin an utxo id names; a coin never changes once created.
CoinModel(u) ==
    CASE u = 1 -> [utxo_id |-> 1, owner |-> "o1", amount |-> 10, asset_id |-> "X"]
      [] u = 2 -> [utxo_id |-> 2, owner |-> "o1", amount |-> 15, asset_id |-> "Y"]
      [] u = 3 -> [utxo_id |-> 3, owner |-> "o1", amount |-> 5, asset_id |-> "X"]
      [] OTHER -> [utxo_id |-> u, owner |-> "o2", amount |-> 50, asset_id |-> "X"]

\* The message a nonce names.
MessageModel(n) ==
    [nonce |-> n, sender |-> "bridge", recipient |-> "o1",
     amount |-> IF n \in DataNonces THEN 8 ELSE 20,
     da_height |-> 1, has_data |-> n \in DataNonces]

\* fuel_core_graphql_api::storage::coins::CoinsToSpendIndexKey
CoinKey(u) ==
    [kind |-> "Coin", owner |-> CoinModel(u).owner, asset_id |-> CoinModel(u).asset_id,
     amount |-> CoinModel(u).amount, id |-> u]
MessageKey(n) ==
    [kind |-> "Message", owner |-> MessageModel(n).recipient, asset_id |-> BaseAssetId,
     amount |-> MessageModel(n).amount, id |-> n]

AllKeys == {CoinKey(u) : u \in UtxoIds} \cup {MessageKey(n) : n \in Nonces}

\* schema CoinType::Coin(Coin) and its fields
Coin(c) ==
    [kind |-> "Coin", id |-> c.utxo_id, owner |-> c.owner, amount |-> c.amount,
     asset_id |-> c.asset_id]

\* schema CoinType::MessageCoin(MessageCoin); asset_id reports the base asset
MessageCoin(m) ==
    [kind |-> "MessageCoin", id |-> m.nonce, owner |-> m.recipient,
     amount |-> m.amount, asset_id |-> BaseAssetId]

\* The identifier of a returned record.
CoinIdOf(r) == IF r.kind = "Coin" THEN Utxo(r.id) ELSE Message(r.id)

\* SpendQueryElementInput
SpendQueryElementInput(a, amt, mx) == [asset_id |-> a, amount |-> amt, max |-> mx]

\* ExcludeInput
ExcludeInput(us, ms) == [utxos |-> us, messages |-> ms]

Ok(v) == [tag |-> "Ok", value |-> v]
Err(e) == [tag |-> "Err", error |-> e]
NoResult == [tag |-> "None"]

TooManyExcludedId(p, a) == [type |-> "TooManyExcludedId", provided |-> p, allowed |-> a]
DuplicateAssets(a) == [type |-> "DuplicateAssets", asset_id |-> a]
InsufficientCoins(a, s) == [type |-> "InsufficientCoins", asset_id |-> a, shortfall |-> s]
NotFound == [type |-> "NotFound"]
Conversion == [type |-> "Conversion"]

(***************************************************************************)
(* CoinQuery::coins_to_spend: the checks and the normalisation.            *)
(***************************************************************************)
\* excluded_ids.map_or(0, |e| e.utxos.len().saturating_add(e.messages.len()));
\* usize never saturates at the lengths a request can carry.
ExcludedIdCount(ex) ==
    IF IsSome(ex) THEN Len(Unwrap(ex).utxos) + Len(Unwrap(ex).messages) ELSE 0

\* Faulty variant: the check rejects a count equal to the ceiling.
TooManyExcludedAtCeiling(count, mi) == count >= mi

\* if excluded_id_count > max_input as usize
TooManyExcluded(count, mi) == count > mi

\* Faulty variant: the excluded messages are left out of the set.
ExcludeFromUtxosOnly(ex) ==
    IF IsSome(ex) THEN {Utxo(u) : u \in Range(Unwrap(ex).utxos)} ELSE {}

\* impl From<Option<ExcludeInput>> for Exclude
ExcludeFrom(ex) ==
    IF IsSome(ex)
    THEN {Utxo(u) : u \in Range(Unwrap(ex).utxos)}
         \cup {Message(n) : n \in Range(Unwrap(ex).messages)}
    ELSE {}

\* Faulty variant: the checker sees the list as it is after the truncation.
HasDuplicateAfterTruncation(q) ==
    \E a, b \in 1..Min(Len(q), max_input) : a < b /\ q[a].asset_id = q[b].asset_id

\* Faulty variant: the checker holds whole entries instead of asset ids.
HasDuplicateEntry(q) == \E a, b \in 1..Len(q) : a < b /\ q[a] = q[b]

\* The duplicate_checker loop: the first entry whose asset id was already inserted.
HasDuplicate(q) == \E a, b \in 1..Len(q) : a < b /\ q[a].asset_id = q[b].asset_id
FirstDuplicate(q) ==
    LET b == CHOOSE b \in 1..Len(q) :
                 /\ \E a \in 1..(b - 1) : q[a].asset_id = q[b].asset_id
                 /\ \A c \in 1..(b - 1) :
                        ~ \E a \in 1..(c - 1) : q[a].asset_id = q[c].asset_id
    IN q[b].asset_id

\* Faulty variant: the list is not truncated.
NotTruncated(q, n) == q

\* query_per_asset.truncate(max_input as usize)
Truncated(q, n) == SubSeq(q, 1, Min(Len(q), n))

\* Faulty variant: the requested max is not clamped to the ceiling.
CapUnclamped(e, mi) == IF IsSome(e.max) THEN Unwrap(e.max) ELSE mi

\* Faulty variant: a missing max counts as no entry at all.
CapDefaultZero(e, mi) == Min(IF IsSome(e.max) THEN Unwrap(e.max) ELSE 0, mi)

\* e.max.map(|max| max.0).unwrap_or(max_input).min(max_input), fallback path
CapWithoutCache(e, mi) == Min(IF IsSome(e.max) THEN Unwrap(e.max) ELSE mi, mi)

\* asset.max.map(|max| max.0).unwrap_or(max_input).min(max_input), indexed path
CapWithCache(e, mi) == Min(IF IsSome(e.max) THEN Unwrap(e.max) ELSE mi, mi)

\* Faulty variant: the fallback path is taken whatever the flag.
PathWithoutCache(indexation_available) == "without_cache"

\* ReadView::coins_to_spend: the path the indexation flag selects
Path(indexation_available) ==
    IF indexation_available THEN "with_cache" ELSE "without_cache"

\* ctx.read_view(): one point-in-time view of the on-chain and off-chain databases
NoView == [taken |-> FALSE]
Snapshot(cs, ms, ix) == [taken |-> TRUE, coins |-> cs, messages |-> ms, index |-> ix]

(***************************************************************************)
(* The indexed selector, coins_query::select_coins_to_spend.               *)
(***************************************************************************)
\* The index is sorted by descending amount; equal amounts by kind and id.
Before(k1, k2) ==
    \/ k1.amount > k2.amount
    \/ k1.amount = k2.amount /\ k1.kind = "Coin" /\ k2.kind = "Message"
    \/ k1.amount = k2.amount /\ k1.kind = k2.kind /\ k1.id < k2.id

RECURSIVE SortDesc(_)
SortDesc(S) ==
    IF S = {} THEN <<>>
    ELSE LET m == CHOOSE k \in S : \A o \in S \ {k} : Before(k, o)
         IN <<m>> \o SortDesc(S \ {m})

\* db.off_chain.coins_to_spend_index(&owner, &asset_id)
coins_to_spend_index(view, o, a) ==
    SortDesc({k \in view.index : k.owner = o /\ k.asset_id = a})

\* into_coin_id
KeyId(k) == IF k.kind = "Coin" THEN Utxo(k.id) ELSE Message(k.id)

\* Faulty variant: the identifiers come out in reverse order.
into_coin_id_reversed(selected) ==
    [k \in 1..Len(selected) |-> KeyId(selected[Len(selected) + 1 - k])]

into_coin_id(selected) == [k \in 1..Len(selected) |-> KeyId(selected[k])]

Stopped(st, total, max) == st.cum >= total \/ Len(st.acc) = max

RECURSIVE ConsumePage(_, _, _, _, _)
ConsumePage(page, st, total, max, excl) ==
    IF page = <<>> \/ Stopped(st, total, max) THEN st
    ELSE IF KeyId(page[1]) \in excl
    THEN ConsumePage(Tail(page), st, total, max, excl)
    ELSE ConsumePage(Tail(page),
                     [st EXCEPT !.acc = Append(@, page[1]), !.cum = @ + page[1].amount],
                     total, max, excl)

\* Faulty variant: the walk ends at a page that adds nothing to the selection.
RECURSIVE WalkIndexUntilIdlePage(_, _, _, _, _, _)
WalkIndexUntilIdlePage(keys, st, total, max, excl, batch) ==
    IF keys = <<>> \/ Stopped(st, total, max) THEN st
    ELSE LET n == Min(batch, Len(keys))
             next == ConsumePage(SubSeq(keys, 1, n),
                                 [st EXCEPT !.pages = @ + 1], total, max, excl)
         IN IF next.acc = st.acc THEN next
            ELSE WalkIndexUntilIdlePage(SubSeq(keys, n + 1, Len(keys)), next,
                                        total, max, excl, batch)

RECURSIVE WalkIndex(_, _, _, _, _, _)
WalkIndex(keys, st, total, max, excl, batch) ==
    IF keys = <<>> \/ Stopped(st, total, max) THEN st
    ELSE LET n == Min(batch, Len(keys))
         IN WalkIndex(SubSeq(keys, n + 1, Len(keys)),
                      ConsumePage(SubSeq(keys, 1, n),
                                  [st EXCEPT !.pages = @ + 1], total, max, excl),
                      total, max, excl, batch)

IndexWalk(iter, total, max, excl, batch) ==
    WalkIndex(iter, [acc |-> <<>>, cum |-> 0, pages |-> 0], total, max, excl, batch)

select_coins_to_spend(iter, total, max, asset_id, excl, batch) ==
    LET st == IndexWalk(iter, total, max, excl, batch)
    IN IF st.cum >= total
       THEN Ok(st.acc)
       ELSE Err(InsufficientCoins(asset_id, total - st.cum))

(***************************************************************************)
(* The result assembler of the indexed path.                               *)
(***************************************************************************)
\* Faulty variant: a stored message becomes a message coin without conversion.
ResolveUnconverted(view, id) ==
    IF id.kind = "Utxo"
    THEN IF id.id \in view.coins THEN Ok(Coin(CoinModel(id.id))) ELSE Err(NotFound)
    ELSE IF id.id \notin view.messages THEN Err(NotFound)
         ELSE Ok(MessageCoin(MessageModel(id.id)))

\* Faulty variant: a record is built for the identifier without a look at the
\* stores of the view.
ResolveUnchecked(view, id) ==
    IF id.kind = "Utxo" THEN Ok(Coin(CoinModel(id.id)))
    ELSE IF MessageModel(id.id).has_data THEN Err(Conversion)
         ELSE Ok(MessageCoin(MessageModel(id.id)))

\* db.coin(utxo_id) / db.message(&nonce) and message.try_into()
Resolve(view, id) ==
    IF id.kind = "Utxo"
    THEN IF id.id \in view.coins THEN Ok(Coin(CoinModel(id.id))) ELSE Err(NotFound)
    ELSE IF id.id \notin view.messages THEN Err(NotFound)
         ELSE IF MessageModel(id.id).has_data THEN Err(Conversion)
         ELSE Ok(MessageCoin(MessageModel(id.id)))

\* Faulty variant: an entry that does not resolve is left out of the result.
RECURSIVE ResolveAllSkipping(_, _, _)
ResolveAllSkipping(view, ids, coins_per_asset) ==
    IF ids = <<>> THEN Ok(coins_per_asset)
    ELSE LET r == Resolve(view, ids[1])
         IN IF r.tag = "Err" THEN ResolveAllSkipping(view, Tail(ids), coins_per_asset)
            ELSE ResolveAllSkipping(view, Tail(ids), Append(coins_per_asset, r.value))

\* The loop over into_coin_id(&selected_coins): the first failure is returned.
RECURSIVE ResolveAll(_, _, _)
ResolveAll(view, ids, coins_per_asset) ==
    IF ids = <<>> THEN Ok(coins_per_asset)
    ELSE LET r == Resolve(view, ids[1])
         IN IF r.tag = "Err" THEN r
            ELSE ResolveAll(view, Tail(ids), Append(coins_per_asset, r.value))

\* Record lookups made by the loop: up to and including the first failure.
RECURSIVE Lookups(_, _)
Lookups(view, ids) ==
    IF ids = <<>> THEN 0
    ELSE IF Resolve(view, ids[1]).tag = "Err" THEN 1
    ELSE 1 + Lookups(view, Tail(ids))

(***************************************************************************)
(* The fallback selector, coins_query::random_improve, one asset of it.    *)
(***************************************************************************)
\* The owned, non-excluded entries of (owner, asset_id), resolved.
Eligible(view, o, a, excl) ==
    {Coin(CoinModel(u)) : u \in {v \in view.coins :
        CoinModel(v).owner = o /\ CoinModel(v).asset_id = a /\ Utxo(v) \notin excl}}
    \cup
    {MessageCoin(MessageModel(n)) : n \in {m \in view.messages :
        /\ a = BaseAssetId
        /\ MessageModel(m).recipient = o
        /\ ~ MessageModel(m).has_data
        /\ Message(m) \notin excl}}

PermutationsOf(S) ==
    {p \in [1..Cardinality(S) -> S] : \A a, b \in 1..Cardinality(S) : a # b => p[a] # p[b]}

\* Sample: accumulate in permuted order until the target or the cap is reached.
RECURSIVE Sample(_, _, _, _)
Sample(perm, sel, total, max) ==
    IF perm = <<>> \/ SumAmounts(sel) >= total \/ Len(sel) = max THEN sel
    ELSE Sample(Tail(perm), Append(sel, perm[1]), total, max)

ImproveAttemptsFactor == 1

\* Faulty variant: the swap takes any smaller entry, whatever sum it leaves.
RECURSIVE ImproveBelowTarget(_, _, _, _, _)
ImproveBelowTarget(sel, rest, total, max, attempts) ==
    IF attempts = 0 \/ Len(sel) >= max \/ rest = {} \/ sel = <<>> THEN sel
    ELSE LET w == CHOOSE k \in 1..Len(sel) :
                      \A j \in 1..Len(sel) :
                          \/ sel[k].amount < sel[j].amount
                          \/ sel[k].amount = sel[j].amount /\ k <= j
             better == {c \in rest : c.amount < sel[w].amount}
         IN IF better = {} THEN sel
            ELSE LET best == CHOOSE c \in better : \A d \in better : c.amount <= d.amount
                 IN ImproveBelowTarget([sel EXCEPT ![w] = best],
                                       (rest \ {best}) \cup {sel[w]},
                                       total, max, attempts - 1)

\* Improve: swap the weakest selected entry for the unselected entry that
\* leaves the smallest non-negative excess, while that reduces the excess.
RECURSIVE Improve(_, _, _, _, _)
Improve(sel, rest, total, max, attempts) ==
    IF attempts = 0 \/ Len(sel) >= max \/ rest = {} \/ sel = <<>> THEN sel
    ELSE LET w == CHOOSE k \in 1..Len(sel) :
                      \A j \in 1..Len(sel) :
                          \/ sel[k].amount < sel[j].amount
                          \/ sel[k].amount = sel[j].amount /\ k <= j
             better == {c \in rest : /\ c.amount < sel[w].amount
                                     /\ SumAmounts(sel) - sel[w].amount + c.amount >= total}
         IN IF better = {} THEN sel
            ELSE LET best == CHOOSE c \in better : \A d \in better : c.amount <= d.amount
                 IN Improve([sel EXCEPT ![w] = best], (rest \ {best}) \cup {sel[w]},
                            total, max, attempts - 1)

random_improve(perm, total, max, asset_id) ==
    LET sel == Sample(perm, <<>>, total, max)
    IN IF SumAmounts(sel) < total
       THEN Err(InsufficientCoins(asset_id, total - SumAmounts(sel)))
       ELSE Ok(Improve(sel, Range(perm) \ Range(sel), total, max,
                       ImproveAttemptsFactor * max))


(***************************************************************************)
(* The inputs a request is drawn from, and the databases it may meet.      *)
(***************************************************************************)
Amounts == {0, 12, 35, 40}
MaxOptions == {None, Some(0), Some(1), Some(3)}

Elements ==
    {SpendQueryElementInput(a, amt, mx) : a \in AssetIds, amt \in Amounts, mx \in MaxOptions}

\* Requests of several targets: every asset, two amounts, three max options.
ListElements == {e \in Elements : e.amount \in {12, 40} /\ e.max # Some(1)}
TargetLists == SeqsUpTo(ListElements, MaxTargets)

\* Requests of several targets that leave the cap to the ceiling.
PlainLists == SeqsUpTo({e \in Elements : e.amount \in {12, 40} /\ e.max = None}, MaxTargets)

\* Requests of one target small enough for the fallback selector to have a
\* cheaper entry to swap in.
SmallTargets ==
    {<<SpendQueryElementInput(a, amt, mx)>> :
        a \in AssetIds, amt \in {4, 8, 25}, mx \in {None, Some(2)}}

\* Requests of one target: every amount and max option.
SingleTargets == {<<e>> : e \in Elements}

\* The utxo ids a caller excludes: a coin of each asset.
ExcludableUtxos == {1, 2}

ExcludeInputs ==
    {None} \cup {Some(ExcludeInput(us, ms)) :
                    us \in SeqsUpTo(ExcludableUtxos, MaxExcludedUtxos),
                    ms \in SeqsUpTo(Nonces, MaxExcludedMessages)}

\* The off-chain index follows the on-chain state with a delay: a key may
\* outlive its spent entry, and a new entry may not be indexed yet.
SettledUtxos == {2, 4}

(***************************************************************************)
(* The handler, step by step.                                              *)
(***************************************************************************)
NoCall ==
    /\ pc = "idle"
    /\ owner = "o1"
    /\ query_per_asset = <<>>
    /\ excluded_ids = None
    /\ request = <<>>
    /\ exclude = {}
    /\ read_view = NoView
    /\ caps = <<>>
    /\ all_coins = <<>>
    /\ result = NoResult
    /\ storage_calls = 0
    /\ first = NoResult

\* A synchronised node: every entry exists and is indexed.
Init ==
    /\ coins = UtxoIds
    /\ messages = Nonces
    /\ index = AllKeys
    /\ indexation \in BOOLEAN
    /\ max_input \in {1, 2}
    /\ batch_size \in {1, 2}
    /\ NoCall

\* Any state of the owner's entries of the base asset, on chain and in the index.
InitPerAsset ==
    /\ coins \in {SettledUtxos \cup s : s \in SUBSET (UtxoIds \ SettledUtxos)}
    /\ messages \in SUBSET Nonces
    /\ index \in {{CoinKey(u) : u \in SettledUtxos} \cup s :
                     s \in SUBSET (AllKeys \ {CoinKey(u) : u \in SettledUtxos})}
    /\ indexation \in BOOLEAN
    /\ max_input = 2
    /\ batch_size = 2
    /\ NoCall

\* A node whose index lags behind the chain: coins 1 and 2 and the messages may
\* be spent while their keys remain, and the index may hold the key of the
\* message that carries data.
InitLagging ==
    /\ coins \in {UtxoIds \ s : s \in SUBSET {1, 2}}
    /\ messages \in SUBSET (Nonces \cup DataNonces)
    /\ index \in {AllKeys \cup s : s \in SUBSET {MessageKey(n) : n \in DataNonces}}
    /\ indexation \in BOOLEAN
    /\ max_input = 2
    /\ batch_size = 2
    /\ NoCall

\* A synchronised node without the index, whose ceiling leaves room for a swap.
InitFallback ==
    /\ coins = UtxoIds
    /\ messages = Nonces
    /\ index = AllKeys
    /\ indexation = FALSE
    /\ max_input = 3
    /\ batch_size = 2
    /\ NoCall

\* A client calls coins_to_spend(owner, query_per_asset, excluded_ids).
RequestFrom(lists) ==
    /\ pc = "idle"
    /\ \E o \in Owners, q \in lists, ex \in ExcludeInputs :
        /\ owner' = o
        /\ query_per_asset' = q
        /\ request' = q
        /\ excluded_ids' = ex
    /\ exclude' = {}
    /\ read_view' = NoView
    /\ caps' = <<>>
    /\ all_coins' = <<>>
    /\ result' = NoResult
    /\ storage_calls' = 0
    /\ pc' = "check_excluded"
    /\ UNCHANGED <<db, first>>

\* The excluded-id count check, then the conversion into Exclude.
CheckExcluded ==
    /\ pc = "check_excluded"
    /\ IF TooManyExcluded(ExcludedIdCount(excluded_ids), max_input)
       THEN /\ result' = Err(TooManyExcludedId(ExcludedIdCount(excluded_ids), max_input))
            /\ pc' = "done"
            /\ UNCHANGED exclude
       ELSE /\ exclude' = ExcludeFrom(excluded_ids)
            /\ pc' = "check_duplicates"
            /\ UNCHANGED result
    /\ UNCHANGED <<db, owner, query_per_asset, excluded_ids, request, read_view, caps,
                   all_coins, storage_calls,
                   first>>

\* The duplicate_checker loop.
CheckDuplicates ==
    /\ pc = "check_duplicates"
    /\ IF HasDuplicate(query_per_asset)
       THEN /\ result' = Err(DuplicateAssets(FirstDuplicate(query_per_asset)))
            /\ pc' = "done"
       ELSE /\ pc' = "truncate"
            /\ UNCHANGED result
    /\ UNCHANGED <<db, owner, query_per_asset, excluded_ids, request, exclude, read_view,
                   caps, all_coins, storage_calls,
                   first>>

\* query_per_asset.truncate(max_input as usize)
Truncate ==
    /\ pc = "truncate"
    /\ query_per_asset' = Truncated(query_per_asset, max_input)
    /\ pc' = "read_view"
    /\ UNCHANGED <<db, owner, excluded_ids, request, exclude, read_view, caps, all_coins,
                   result, storage_calls,
                   first>>

\* ctx.read_view()?, then ReadView::coins_to_spend picks the path.
AcquireReadView ==
    /\ pc = "read_view"
    /\ read_view' = Snapshot(coins, messages, index)
    /\ storage_calls' = storage_calls + 1
    /\ pc' = Path(indexation)
    /\ UNCHANGED <<db, owner, query_per_asset, excluded_ids, request, exclude, caps,
                   all_coins, result,
                   first>>

\* Faulty variant: a target whose selection fails contributes an empty list.
AssetWithCacheLenient(view, o, asset, excl, mi, batch) ==
    LET max == CapWithCache(asset, mi)
        iter == coins_to_spend_index(view, o, asset.asset_id)
        selected_coins == select_coins_to_spend(iter, asset.amount, max,
                                                asset.asset_id, excl, batch)
    IN IF selected_coins.tag = "Err" THEN Ok(<<>>)
       ELSE ResolveAll(view, into_coin_id(selected_coins.value), <<>>)

\* The body of the loop of coins_to_spend_with_cache for one asset:
\* select_coins_to_spend(...).await?, then the resolution of every id.
AssetWithCache(view, o, asset, excl, mi, batch) ==
    LET max == CapWithCache(asset, mi)
        iter == coins_to_spend_index(view, o, asset.asset_id)
        selected_coins == select_coins_to_spend(iter, asset.amount, max,
                                                asset.asset_id, excl, batch)
    IN IF selected_coins.tag = "Err" THEN selected_coins
       ELSE ResolveAll(view, into_coin_id(selected_coins.value), <<>>)

\* One iteration of the loop of coins_to_spend_with_cache.
WithCacheAsset ==
    /\ pc = "with_cache"
    /\ Len(all_coins) < Len(query_per_asset)
    /\ LET asset == query_per_asset[Len(all_coins) + 1]
           max == CapWithCache(asset, max_input)
           iter == coins_to_spend_index(read_view, owner, asset.asset_id)
           selected_coins == select_coins_to_spend(iter, asset.amount, max,
                                                   asset.asset_id, exclude, batch_size)
           pages == IndexWalk(iter, asset.amount, max, exclude, batch_size).pages
           lookups == IF selected_coins.tag = "Err" THEN 0
                      ELSE Lookups(read_view, into_coin_id(selected_coins.value))
           coins_per_asset == AssetWithCache(read_view, owner, asset, exclude,
                                             max_input, batch_size)
       IN /\ caps' = Append(caps, max)
          /\ storage_calls' = storage_calls + pages + lookups
          /\ IF coins_per_asset.tag = "Err"
             THEN /\ result' = coins_per_asset
                  /\ pc' = "done"
                  /\ UNCHANGED all_coins
             ELSE /\ all_coins' = Append(all_coins, coins_per_asset.value)
                  /\ UNCHANGED <<result, pc>>
    /\ UNCHANGED <<db, owner, query_per_asset, excluded_ids, request, exclude, read_view,
                   first>>

\* Ok(all_coins) of coins_to_spend_with_cache.
WithCacheReturn ==
    /\ pc = "with_cache"
    /\ Len(all_coins) = Len(query_per_asset)
    /\ result' = Ok(all_coins)
    /\ pc' = "done"
    /\ UNCHANGED <<db, owner, query_per_asset, excluded_ids, request, exclude, read_view,
                   caps, all_coins, storage_calls,
                   first>>

\* One asset of random_improve, on the targets coins_to_spend_without_cache built.
WithoutCacheAsset ==
    /\ pc = "without_cache"
    /\ Len(all_coins) < Len(query_per_asset)
    /\ LET e == query_per_asset[Len(all_coins) + 1]
           max == CapWithoutCache(e, max_input)
       IN /\ caps' = Append(caps, max)
          /\ \E perm \in PermutationsOf(Eligible(read_view, owner, e.asset_id, exclude)) :
                LET coins_per_asset == random_improve(perm, e.amount, max, e.asset_id)
                IN IF coins_per_asset.tag = "Err"
                   THEN /\ result' = coins_per_asset
                        /\ pc' = "done"
                        /\ UNCHANGED all_coins
                   ELSE /\ all_coins' = Append(all_coins, coins_per_asset.value)
                        /\ UNCHANGED <<result, pc>>
    /\ storage_calls' = storage_calls + 1
    /\ UNCHANGED <<db, owner, query_per_asset, excluded_ids, request, exclude, read_view,
                   first>>

\* Ok(all_coins) of coins_to_spend_without_cache.
WithoutCacheReturn ==
    /\ pc = "without_cache"
    /\ Len(all_coins) = Len(query_per_asset)
    /\ result' = Ok(all_coins)
    /\ pc' = "done"
    /\ UNCHANGED <<db, owner, query_per_asset, excluded_ids, request, exclude, read_view,
                   caps, all_coins, storage_calls,
                   first>>

\* The response is delivered; the handler is ready for the next request.
Respond ==
    /\ pc = "done"
    /\ pc' = "idle"
    /\ owner' = "o1"
    /\ query_per_asset' = <<>>
    /\ excluded_ids' = None
    /\ request' = <<>>
    /\ exclude' = {}
    /\ read_view' = NoView
    /\ caps' = <<>>
    /\ all_coins' = <<>>
    /\ result' = NoResult
    /\ storage_calls' = 0
    /\ first' = NoResult
    /\ UNCHANGED db

Request == RequestFrom(TargetLists)

RequestOne == RequestFrom(SingleTargets)

RequestPlain == RequestFrom(PlainLists)

RequestSmall == RequestFrom(SmallTargets)

RequestOnePlain == RequestFrom({q \in PlainLists : Len(q) = 1})

(***************************************************************************)
(* Transactions of other clients and the off-chain worker, which run while *)
(* a call is in flight. An entry is created once and spent once: within    *)
(* the window modelled, coin 1 and the message can be spent and coin 3 is  *)
(* created.                                                                *)
(***************************************************************************)
SpendableUtxos == {1}
CreatableUtxos == {3}

\* A block spends a coin of the owner.
SpendCoin ==
    /\ \E u \in SpendableUtxos \cap coins : coins' = coins \ {u}
    /\ UNCHANGED <<messages, index, indexation, max_input, batch_size, call>>

\* A block spends a message of the owner.
SpendMessage ==
    /\ \E n \in messages : messages' = messages \ {n}
    /\ UNCHANGED <<coins, index, indexation, max_input, batch_size, call>>

\* A block creates a coin for the owner.
CreateCoin ==
    /\ \E u \in CreatableUtxos \ coins : coins' = coins \cup {u}
    /\ UNCHANGED <<messages, index, indexation, max_input, batch_size, call>>

\* The off-chain worker indexes an entry that is on chain.
IndexAdd ==
    /\ \E k \in ({CoinKey(u) : u \in coins} \cup {MessageKey(n) : n \in messages}) \ index :
           index' = index \cup {k}
    /\ UNCHANGED <<coins, messages, indexation, max_input, batch_size, call>>

\* The off-chain worker drops the key of an entry that was spent.
IndexRemove ==
    /\ \E k \in index \ ({CoinKey(u) : u \in coins} \cup {MessageKey(n) : n \in messages}) :
           index' = index \ {k}
    /\ UNCHANGED <<coins, messages, indexation, max_input, batch_size, call>>

External == SpendCoin \/ SpendMessage \/ CreateCoin \/ IndexAdd \/ IndexRemove

\* A synchronised node on which coin 3 is yet to be created.
InitLive ==
    /\ coins = UtxoIds \ CreatableUtxos
    /\ messages = Nonces
    /\ index = AllKeys \ {CoinKey(u) : u \in CreatableUtxos}
    /\ indexation \in BOOLEAN
    /\ max_input = 2
    /\ batch_size = 2
    /\ NoCall

Handler ==
    \/ CheckExcluded
    \/ CheckDuplicates
    \/ Truncate
    \/ AcquireReadView
    \/ WithCacheAsset
    \/ WithCacheReturn
    \/ WithoutCacheAsset
    \/ WithoutCacheReturn
    \/ Respond

\* The caller repeats the request it just made, the database unchanged.
Replay ==
    /\ pc = "done"
    /\ first = NoResult
    /\ first' = result
    /\ query_per_asset' = request
    /\ exclude' = {}
    /\ read_view' = NoView
    /\ caps' = <<>>
    /\ all_coins' = <<>>
    /\ result' = NoResult
    /\ storage_calls' = 0
    /\ pc' = "check_excluded"
    /\ UNCHANGED <<db, owner, excluded_ids, request>>

Next == Request \/ Handler

NextPerAsset == RequestOne \/ Handler

\* Requests of several targets against a synchronised node.
Spec == Init /\ [][Next]_vars

\* Requests of one target against every state of the owner's entries.
SpecPerAsset == InitPerAsset /\ [][NextPerAsset]_vars

NextLagging == RequestPlain \/ Handler

\* Requests of several targets against a node whose index lags behind.
SpecLagging == InitLagging /\ [][NextLagging]_vars

NextLive == RequestOnePlain \/ Handler \/ External

\* Requests of one target, interleaved with the transactions of other clients.
SpecLive == InitLive /\ [][NextLive]_vars

NextFallback ==
    \/ RequestSmall
    \/ CheckExcluded
    \/ CheckDuplicates
    \/ Truncate
    \/ AcquireReadView
    \/ WithoutCacheAsset
    \/ WithoutCacheReturn
    \/ Respond

\* Requests of one small target on the fallback path.
SpecFallback == InitFallback /\ [][NextFallback]_vars

NextTwice == RequestOne \/ Handler \/ Replay

\* Requests of one target, each made twice against the same database.
SpecTwice == InitPerAsset /\ [][NextTwice]_vars


(***************************************************************************)
(* The claims.                                                             *)
(***************************************************************************)
\* What the request says, read from the arguments alone.
ProvidedCount ==
    IF excluded_ids = None THEN 0
    ELSE Len(excluded_ids[1].utxos) + Len(excluded_ids[1].messages)

RequestedExclusions ==
    IF excluded_ids = None THEN {}
    ELSE {[kind |-> "Utxo", id |-> excluded_ids[1].utxos[k]] :
              k \in 1..Len(excluded_ids[1].utxos)}
         \cup {[kind |-> "Message", id |-> excluded_ids[1].messages[k]] :
                  k \in 1..Len(excluded_ids[1].messages)}

Repeated(a) == Cardinality({k \in 1..Len(request) : request[k].asset_id = a}) > 1

ClampedMax(e) ==
    IF e.max = None THEN max_input
    ELSE IF e.max[1] < max_input THEN e.max[1] ELSE max_input

Failed(type) == pc = "done" /\ result.tag = "Err" /\ result.error.type = type

Succeeded == pc = "done" /\ result.tag = "Ok"

\* C1: a request whose excluded utxo ids and message nonces together number
\* more than max_inputs fails with TooManyExcludedId{provided = that number,
\* allowed = max_inputs} before any storage access; a number equal to
\* max_inputs is not rejected by this check.
C1_TooManyExcludedBeforeStorage ==
    /\ (pc \notin {"idle", "check_excluded"} /\ ProvidedCount > max_input) =>
          /\ pc = "done"
          /\ result = [tag |-> "Err",
                       error |-> [type |-> "TooManyExcludedId",
                                  provided |-> ProvidedCount, allowed |-> max_input]]
          /\ storage_calls = 0
          /\ read_view = NoView
    /\ Failed("TooManyExcludedId") => ProvidedCount > max_input

C1_Witness ==
    /\ Failed("TooManyExcludedId")
    /\ ProvidedCount = max_input + 1
    /\ Len(request) > 0

\* C2 as stated: every request in which an asset id appears more than once
\* among the targets fails with DuplicateAssets of a repeated asset id,
\* whatever the amounts, caps, exclusion lists and positions.
C2_DuplicatesAlwaysRejected ==
    (pc = "done" /\ \E a \in AssetIds : Repeated(a)) =>
        /\ Failed("DuplicateAssets")
        /\ Repeated(result.error.asset_id)

\* C2 amended: every request whose excluded ids do not outnumber max_inputs
\* and in which an asset id appears more than once among the targets fails
\* with DuplicateAssets of a repeated asset id, before any storage access.
C2_DuplicatesRejectedAfterExclusionCheck ==
    (pc \notin {"idle", "check_excluded", "check_duplicates"}
     /\ ProvidedCount <= max_input
     /\ \E a \in AssetIds : Repeated(a)) =>
        /\ Failed("DuplicateAssets")
        /\ Repeated(result.error.asset_id)
        /\ storage_calls = 0

C2_Witness ==
    /\ Failed("DuplicateAssets")
    /\ Len(request) = 2
    /\ request[1].amount # request[2].amount
    /\ request[1].max # request[2].max
    /\ ProvidedCount = max_input

\* C3: a successful call returns as many inner lists as the caller supplied
\* targets, and the i-th inner list holds only records of the i-th target's
\* asset.
C3_ResultMirrorsRequest ==
    Succeeded =>
        /\ Len(result.value) = Len(request)
        /\ \A i \in 1..Len(result.value) :
              \A k \in 1..Len(result.value[i]) :
                  result.value[i][k].asset_id = request[i].asset_id

C5_SumCoversTarget ==
    /\ \A i \in 1..Len(all_coins) : SumAmounts(all_coins[i]) >= query_per_asset[i].amount
    /\ Succeeded =>
          \A i \in 1..Len(result.value) :
              SumAmounts(result.value[i]) >= request[i].amount

C5_Witness ==
    /\ Succeeded
    /\ indexation
    /\ request[1].amount = 12
    /\ Len(result.value[1]) = 2
    /\ read_view.index # {CoinKey(u) : u \in read_view.coins}
                          \cup {MessageKey(n) : n \in read_view.messages}

\* C6: on both paths the records returned for a target number at most the
\* requested max clamped to max_inputs, hence at most max_inputs.
C6_CountWithinCap ==
    /\ \A i \in 1..Len(all_coins) :
          /\ Len(all_coins[i]) <= ClampedMax(query_per_asset[i])
          /\ Len(all_coins[i]) <= max_input
    /\ Succeeded =>
          \A i \in 1..Len(result.value) : Len(result.value[i]) <= ClampedMax(request[i])

C6_Witness ==
    /\ Succeeded
    /\ indexation
    /\ request[1].max = <<3>>
    /\ Len(result.value[1]) = max_input

\* C7: no returned record, for any target and on either path, is named by
\* the caller's exclusion lists, and every per-asset selection of the query
\* works with the set of exactly those identifiers.
C7_NoExcludedRecord ==
    /\ \A i \in 1..Len(all_coins) :
          \A k \in 1..Len(all_coins[i]) : CoinIdOf(all_coins[i][k]) \notin RequestedExclusions
    /\ Succeeded =>
          \A i \in 1..Len(result.value) :
              \A k \in 1..Len(result.value[i]) :
                  CoinIdOf(result.value[i][k]) \notin RequestedExclusions
    /\ pc \in {"with_cache", "without_cache"} => exclude = RequestedExclusions

C7_Witness ==
    /\ Succeeded
    /\ Len(result.value) = 2
    /\ [kind |-> "Message", id |-> 1] \in RequestedExclusions
    /\ \E i \in 1..2 : Len(result.value[i]) = 2

\* C8: the max handed to the selector is min(requested max if given else
\* max_inputs, max_inputs) for every target, and both paths compute the same
\* max for the same target and max_inputs, a requested max of 0 giving 0.
C8_EffectiveCap ==
    /\ \A i \in 1..Len(caps) : caps[i] = ClampedMax(query_per_asset[i])
    /\ \A e \in Elements : CapWithCache(e, max_input) = CapWithoutCache(e, max_input)

C8_Witness ==
    /\ pc = "done"
    /\ ~ indexation
    /\ request[1].max = <<0>>
    /\ caps = <<0>>

AllExcluded(a) ==
    /\ \A u \in read_view.coins :
          (CoinModel(u).owner = owner /\ CoinModel(u).asset_id = a) =>
              [kind |-> "Utxo", id |-> u] \in RequestedExclusions
    /\ \A n \in read_view.messages :
          (MessageModel(n).recipient = owner /\ a = BaseAssetId) =>
              [kind |-> "Message", id |-> n] \in RequestedExclusions
    /\ \A k \in read_view.index :
          (k.owner = owner /\ k.asset_id = a) =>
              [kind |-> IF k.kind = "Coin" THEN "Utxo" ELSE "Message", id |-> k.id]
                  \in RequestedExclusions

HasEntry(a) ==
    \/ \E u \in read_view.coins : CoinModel(u).owner = owner /\ CoinModel(u).asset_id = a
    \/ \E n \in read_view.messages : MessageModel(n).recipient = owner /\ a = BaseAssetId

C11_AllOrNothing ==
    (pc = "done" /\ read_view.taken) =>
        /\ result.tag \in {"Ok", "Err"}
        /\ result.tag = "Ok" =>
              /\ DOMAIN result = {"tag", "value"}
              /\ Len(result.value) = Len(query_per_asset)
              /\ \A k \in 1..Len(query_per_asset) :
                     SumAmounts(result.value[k]) >= query_per_asset[k].amount
        /\ result.tag = "Err" =>
              /\ DOMAIN result = {"tag", "error"}
              /\ result.error.type \in {"InsufficientCoins", "NotFound", "Conversion"}
              /\ Len(all_coins) < Len(query_per_asset)
              /\ Len(caps) = Len(all_coins) + 1
              /\ \A k \in 1..Len(all_coins) :
                     SumAmounts(all_coins[k]) >= query_per_asset[k].amount
              /\ result.error.type = "InsufficientCoins" =>
                     result.error.asset_id = query_per_asset[Len(all_coins) + 1].asset_id

\* The first target was served and the second failed in resolution.
C11_Witness ==
    /\ Failed("NotFound")
    /\ indexation
    /\ Len(query_per_asset) = 2
    /\ Len(all_coins) = 1
    /\ all_coins[1] # <<>>

\* The index keys of the owner for an asset that the request does not exclude,
\* read from the view and the arguments alone.
KeyExcluded(k) ==
    [kind |-> IF k.kind = "Coin" THEN "Utxo" ELSE "Message", id |-> k.id]
        \in RequestedExclusions

OfferedKeys(a) ==
    {k \in read_view.index : k.owner = owner /\ k.asset_id = a /\ ~ KeyExcluded(k)}

\* The index key a returned record stands for.
RecordKey(r) ==
    [kind |-> IF r.kind = "Coin" THEN "Coin" ELSE "Message", owner |-> r.owner,
     asset_id |-> r.asset_id, amount |-> r.amount, id |-> r.id]

RECURSIVE KeySum(_)
KeySum(S) == IF S = {} THEN 0 ELSE LET k == CHOOSE x \in S : TRUE
                                  IN k.amount + KeySum(S \ {k})

\* T holds the largest entries of E: nothing left out is larger than one taken.
LargestOf(T, E) == T \subseteq E /\ \A t \in T, e \in E \ T : t.amount >= e.amount

\* C12: on the indexed path a returned per-asset list is the shortest prefix,
\* in descending amount order, of the owner's non-excluded index entries whose
\* cumulative amount reaches the target: it holds the largest such entries,
\* largest first, reaches the target, and does not reach it without its last.
C12_ShortestDescendingPrefix ==
    (Succeeded /\ indexation) =>
        \A k \in 1..Len(result.value) :
            LET L == result.value[k]
                e == query_per_asset[k]
                T == {RecordKey(L[j]) : j \in 1..Len(L)}
            IN /\ Cardinality(T) = Len(L)
               /\ LargestOf(T, OfferedKeys(e.asset_id))
               /\ \A i, j \in 1..Len(L) : i < j => L[i].amount >= L[j].amount
               /\ KeySum(T) >= e.amount
               /\ L # <<>> => KeySum(T) - L[Len(L)].amount < e.amount
               /\ e.amount = 0 => L = <<>>

\* Holdings 5, 10 and 20, target 12, cap 2: the entry of 20 alone is returned.
C12_Witness ==
    /\ Succeeded
    /\ indexation
    /\ RequestedExclusions = {}
    /\ {k.amount : k \in OfferedKeys("X")} = {5, 10, 20}
    /\ request = <<SpendQueryElementInput("X", 12, None)>>
    /\ max_input = 2
    /\ Len(result.value[1]) = 1
    /\ result.value[1][1].amount = 20

\* C13: on the indexed path, when the largest non-excluded entries, as many
\* as the effective cap allows, sum to less than the target, the call fails
\* with InsufficientCoins for that asset and the shortfall target minus their
\* sum; the under-funded list is never returned.
C13_CapReachedFails ==
    (pc = "done" /\ read_view.taken /\ indexation /\ query_per_asset # <<>>) =>
        LET e == query_per_asset[1]
        IN \A T \in SUBSET OfferedKeys(e.asset_id) :
               (/\ Cardinality(T) = ClampedMax(e)
                /\ LargestOf(T, OfferedKeys(e.asset_id))
                /\ KeySum(T) < e.amount)
               => result = Err(InsufficientCoins(e.asset_id, e.amount - KeySum(T)))

\* Holdings 5, 10 and 20, target 40, cap 2: the shortfall is 10.
C13_Witness ==
    /\ pc = "done"
    /\ read_view.taken
    /\ indexation
    /\ RequestedExclusions = {}
    /\ {k.amount : k \in OfferedKeys("X")} = {5, 10, 20}
    /\ request = <<SpendQueryElementInput("X", 40, None)>>
    /\ max_input = 2
    /\ result = Err(InsufficientCoins("X", 10))

\* The selection the first target is due: the largest offered entries that
\* reach the target, none of them dispensable, within the cap.
DueSelection(T, e) ==
    /\ LargestOf(T, OfferedKeys(e.asset_id))
    /\ KeySum(T) >= e.amount
    /\ \A t \in T : KeySum(T \ {t}) < e.amount
    /\ Cardinality(T) <= ClampedMax(e)

\* What the stores of the view hold for an index key.
Missing(k) ==
    IF k.kind = "Coin" THEN k.id \notin read_view.coins
    ELSE k.id \notin read_view.messages

Unconvertible(k) == k.kind = "Message" /\ ~ Missing(k) /\ MessageModel(k.id).has_data

\* C14: on the indexed path every selected identifier is resolved, in
\* selection order: an utxo id into a Coin record, a nonce into a MessageCoin
\* record. When a selected entry is missing from the store or its message
\* cannot be converted, the call fails with the error of the first such
\* entry, NotFound or Conversion; otherwise the list holds a record for every
\* selected entry, none omitted.
C14_EverySelectedResolved ==
    (pc = "done" /\ read_view.taken /\ indexation /\ query_per_asset # <<>>) =>
        LET e == query_per_asset[1]
        IN \A T \in SUBSET OfferedKeys(e.asset_id) :
              DueSelection(T, e) =>
                 LET bad == {k \in T : Missing(k) \/ Unconvertible(k)}
                 IN IF bad # {}
                    THEN LET b == CHOOSE k \in bad : \A o \in bad : k.amount >= o.amount
                         IN /\ all_coins = <<>>
                            /\ result = IF Missing(b) THEN Err(NotFound)
                                        ELSE Err(Conversion)
                    ELSE /\ Len(all_coins) >= 1
                         /\ Len(all_coins[1]) = Cardinality(T)
                         /\ {RecordKey(all_coins[1][j]) : j \in 1..Len(all_coins[1])} = T
                         /\ \A j \in 1..Len(all_coins[1]) :
                                LET r == all_coins[1][j]
                                IN /\ r.kind = "Coin" => r = Coin(CoinModel(r.id))
                                   /\ r.kind = "MessageCoin" =>
                                          r = MessageCoin(MessageModel(r.id))
                                   /\ \A i \in 1..(j - 1) :
                                          all_coins[1][i].amount >= r.amount

\* The coin selected first was resolved; the message selected second carries
\* data and fails the conversion.
C14_Witness ==
    /\ Failed("Conversion")
    /\ indexation
    /\ RequestedExclusions = {[kind |-> "Message", id |-> 1]}
    /\ request = <<SpendQueryElementInput("X", 12, None)>>
    /\ 1 \in read_view.coins
    /\ storage_calls >= 3

\* A returned record was an unspent, non-excluded entry of the owner in the view.
FromView(r) ==
    /\ r.owner = owner
    /\ CoinIdOf(r) \notin RequestedExclusions
    /\ r.kind = "Coin" => r.id \in read_view.coins /\ r = Coin(CoinModel(r.id))
    /\ r.kind = "MessageCoin" =>
           r.id \in read_view.messages /\ r = MessageCoin(MessageModel(r.id))

\* C15: under every interleaving with transactions that spend and create
\* entries, a step of the call leaves the coins, the messages and the index as
\* they are, the view read by a call stays the one it read, and a record of a
\* successful result was an unspent, non-excluded entry of the owner in that
\* view, whatever has become of it since.
C15_ReadOnlyPointInTimeView ==
    /\ [](Succeeded =>
             \A k \in 1..Len(result.value) :
                 \A j \in 1..Len(result.value[k]) : FromView(result.value[k][j]))
    /\ [][call' # call => UNCHANGED <<coins, messages, index>>]_vars
    /\ [][(read_view.taken /\ read_view'.taken) => read_view' = read_view]_vars

\* A returned coin was spent by another transaction while the call was in flight.
C15_Witness ==
    /\ Succeeded
    /\ result.value # <<>>
    /\ \E j \in 1..Len(result.value[1]) :
           /\ result.value[1][j].kind = "Coin"
           /\ result.value[1][j].id \in read_view.coins \ coins
    /\ read_view.index # index

\* The entries the fallback selector may draw from for a target, read from the
\* view and the arguments alone.
Candidates(a) ==
    {r \in Eligible(read_view, owner, a, {}) : CoinIdOf(r) \notin RequestedExclusions}

\* The positions at which two selections of the same length differ.
Swapped(s, t) == {k \in 1..Len(s) : s[k] # t[k]}

\* C16: on the fallback path, for every permutation of the candidates whose
\* sample reaches the target, every swap of the improve phase keeps the sum at
\* or above the target and the size within the cap and does not increase the
\* excess; an attempt applies at most one swap and no swap is applied without
\* budget, so the phase ends within its budget. The selection the call obtains
\* is one of these: it reaches the target, stays within the cap and holds only
\* distinct candidates, none of them excluded.
C16_ImproveKeepsSelectionValid ==
    (read_view.taken /\ ~ indexation /\ caps # <<>>) =>
        LET e == query_per_asset[1]
            cap == ClampedMax(e)
            budget == ImproveAttemptsFactor * cap
            after(perm, n) ==
                LET s0 == Sample(perm, <<>>, e.amount, cap)
                IN Improve(s0, Range(perm) \ Range(s0), e.amount, cap, n)
            sampled == {perm \in PermutationsOf(Candidates(e.asset_id)) :
                           SumAmounts(after(perm, 0)) >= e.amount}
        IN /\ \A perm \in sampled :
                 /\ after(perm, 0) = Sample(perm, <<>>, e.amount, cap)
                 /\ \A n \in 0..(budget - 1) :
                        LET a == after(perm, n)
                            b == after(perm, n + 1)
                        IN /\ SumAmounts(b) >= e.amount
                           /\ Len(b) = Len(a)
                           /\ Len(b) <= cap
                           /\ SumAmounts(b) <= SumAmounts(a)
                           /\ Cardinality(Swapped(a, b)) <= 1
                           /\ Swapped(a, b) # {} => SumAmounts(b) < SumAmounts(a)
                           /\ Range(b) \subseteq Candidates(e.asset_id)
                           /\ Cardinality(Range(b)) = Len(b)
           /\ all_coins # <<>> =>
                 /\ \E perm \in sampled : all_coins[1] = after(perm, budget)
                 /\ SumAmounts(all_coins[1]) >= e.amount
                 /\ Len(all_coins[1]) <= cap
                 /\ \A j \in 1..Len(all_coins[1]) :
                        CoinIdOf(all_coins[1][j]) \notin RequestedExclusions

\* The sample took the entry of 20 for a target of 8 and the improve phase
\* swapped it for the entry of 10.
C16_Witness ==
    /\ Succeeded
    /\ ~ indexation
    /\ request = <<SpendQueryElementInput("X", 8, None)>>
    /\ RequestedExclusions = {}
    /\ Len(result.value[1]) = 1
    /\ result.value[1][1].amount = 10
    /\ \E perm \in PermutationsOf(Candidates("X")) :
           /\ Sample(perm, <<>>, 8, 3) = <<MessageCoin(MessageModel(1))>>
           /\ Improve(Sample(perm, <<>>, 8, 3), Range(perm) \ {MessageCoin(MessageModel(1))},
                      8, 3, 1) = result.value[1]

\* C17: on the indexed path the outcome for a target does not depend on the
\* batch size: for the same index, target, cap and exclusion set, a walk in
\* pages of any size from one entry up selects the same ordered list, or fails
\* with the same InsufficientCoins error, as a walk that reads the whole index
\* in one page, and the call obtains the records of that list.
C17_BatchSizeIndependent ==
    (read_view.taken /\ indexation /\ caps # <<>>) =>
        LET e == query_per_asset[1]
            iter == coins_to_spend_index(read_view, owner, e.asset_id)
            paged(b) == select_coins_to_spend(iter, e.amount, ClampedMax(e), e.asset_id,
                                              RequestedExclusions, b)
            whole == paged(Len(iter) + 1)
        IN /\ \A b \in 1..(Len(iter) + 1) : paged(b) = whole
           /\ whole.tag = "Err" => result = whole
           /\ whole.tag = "Ok" =>
                 \/ Failed("NotFound")
                 \/ Failed("Conversion")
                 \/ /\ all_coins # <<>>
                    /\ [j \in 1..Len(all_coins[1]) |-> CoinIdOf(all_coins[1][j])]
                           = into_coin_id(whole.value)

\* Both entries of the first page of two are excluded: the walk goes on to the
\* next page and fails for want of 7, as the walk in one page does.
C17_Witness ==
    /\ pc = "done"
    /\ read_view.taken
    /\ indexation
    /\ batch_size = 2
    /\ RequestedExclusions = {[kind |-> "Message", id |-> 1], [kind |-> "Utxo", id |-> 1]}
    /\ {k.amount : k \in {x \in read_view.index : x.owner = owner /\ x.asset_id = "X"}}
           = {5, 10, 20}
    /\ request = <<SpendQueryElementInput("X", 12, None)>>
    /\ result = Err(InsufficientCoins("X", 7))
    /\ storage_calls = 3

NothingRead == ~ read_view.taken /\ storage_calls = 0

\* C18: the steps run in a fixed order. The duplicate check is reached only
\* with an exclusion count within the ceiling and sees the whole list; the
\* truncation is reached only without a duplicate in the whole list; the view
\* is read only after the truncation. So a request that exceeds the exclusion
\* ceiling fails with TooManyExcludedId even when it repeats an asset, a
\* request within the ceiling that repeats an asset anywhere in its list, also
\* beyond the ceiling-th target, fails with DuplicateAssets, and neither error
\* is preceded by a storage access.
C18_ValidationOrder ==
    /\ pc = "check_excluded" => query_per_asset = request /\ NothingRead
    /\ pc = "check_duplicates" =>
          /\ ProvidedCount <= max_input
          /\ query_per_asset = request
          /\ NothingRead
    /\ pc = "truncate" =>
          /\ ProvidedCount <= max_input
          /\ \A a \in AssetIds : ~ Repeated(a)
          /\ query_per_asset = request
          /\ NothingRead
    /\ pc = "read_view" =>
          /\ ProvidedCount <= max_input
          /\ \A a \in AssetIds : ~ Repeated(a)
          /\ Len(query_per_asset) <= max_input
          /\ NothingRead
    /\ read_view.taken =>
          /\ ProvidedCount <= max_input
          /\ \A a \in AssetIds : ~ Repeated(a)
          /\ Len(query_per_asset) <= max_input
    /\ (pc = "done" /\ ProvidedCount > max_input) =>
          /\ result = Err(TooManyExcludedId(ProvidedCount, max_input))
          /\ NothingRead
    /\ (pc = "done" /\ ProvidedCount <= max_input /\ \E a \in AssetIds : Repeated(a)) =>
          /\ Failed("DuplicateAssets")
          /\ Repeated(result.error.asset_id)
          /\ NothingRead

\* The asset is repeated by the second target of a request whose ceiling is one.
C18_Witness ==
    /\ Failed("DuplicateAssets")
    /\ max_input = 1
    /\ Len(request) = 2
    /\ request[1].asset_id = request[2].asset_id
    /\ query_per_asset = request
    /\ NothingRead

====
